---- MODULE Spec2Model ----
(***************************************************************************)
(* Model of BT::XMLParser (src/src/xml_parsing.cpp): the structural        *)
(* validator verifyXML and the tree builder instantiateTree, together with *)
(* the example document of examples/t01_build_your_first_tree.cpp.         *)
(*                                                                         *)
(* A parsed document is a tree of elements (tag, attributes, source line,  *)
(* ordered children).  One XMLParser object is followed from construction  *)
(* through its loads and its calls of verifyXML and instantiateTree;       *)
(* instantiateTree is followed node by node (one step per call of the      *)
(* node_builder callback).                                                 *)
(***************************************************************************)
EXTENDS Integers, Sequences, FiniteSets, TLC

(***************************************************************************)
(* Bounds of the enumerated inputs.                                        *)
(***************************************************************************)
\* largest number of children given to a generated structural element
MaxChildren == 2
\* largest number of nodes already present in the caller's flat list
MaxPrior == 1

(***************************************************************************)
(* tinyxml2 documents.                                                     *)
(***************************************************************************)
\* a null const char* (absent attribute)
Null == "<nullptr>"
\* a null XMLElement*
NullElem == [null |-> TRUE]
\* an attribute list with no attribute
NoAttrs == [a \in {} |-> ""]

\* XMLElement::Attribute(name): the value, or null when the attribute is absent
Attribute(e, a) == IF a \in DOMAIN e.attrs THEN e.attrs[a] ELSE Null

\* XMLElement::FirstChildElement()
FirstChildElement(e) == IF Len(e.children) = 0 THEN NullElem ELSE e.children[1]

\* the children found by FirstChildElement(name) / NextSiblingElement(name)
ChildrenNamed(e, name) == SelectSeq(e.children, LAMBDA c : c.tag = name)

\* the lambda ChildrenCount of verifyXML
ChildrenCount(parent_node) == Len(parent_node.children)

\* strEqual of verifyXML (strcmp(str1, str2) == 0)
strEqual(str1, str2) == str1 = str2

\* the XMLDocument of a freshly constructed XMLParser: no error, no root
EmptyDoc == [error |-> FALSE, root |-> NullElem]

\* the XMLDocument after a failed Parse
ErrorDoc == [error |-> TRUE, root |-> NullElem]

(***************************************************************************)
(* verifyXML                                                               *)
(***************************************************************************)
\* sprintf(buffer, "Error at line %d: -> %s", line_num, text)
FormatError(line_num, text) == "Error at line " \o ToString(line_num) \o ": -> " \o text

\* the lambda AppendError: push the formatted message, clear is_valid
AppendError(acc, line_num, text) ==
    [msgs |-> Append(acc.msgs, FormatError(line_num, text)), is_valid |-> FALSE]

\* AppendError when the condition holds, nothing otherwise
ErrorIf(acc, cond, line_num, text) == IF cond THEN AppendError(acc, line_num, text) ELSE acc

\* error_messages.clear() at the start of verifyXML, mutated: the list is kept
clear_kept(error_messages) == error_messages

\* error_messages.clear() at the start of verifyXML
clear(error_messages) == <<>>

\* the inner loop over the <Parameter> children of the root (it reads the
\* attributes label and type of the outer node, once per <Parameter>)
RECURSIVE ParameterLoop(_, _, _)
ParameterLoop(acc, node, n) ==
    IF n = 0 THEN acc
    ELSE ParameterLoop(
            ErrorIf(acc, Attribute(node, "label") = Null \/ Attribute(node, "type") = Null,
                    node.line, "The node <Parameter> requires the attributes [type] and [label]"),
            node, n - 1)

\* the body of the loop over the children of the root when a TreeNodesModel exists
MetaNode(acc, xml_root, node) ==
    IF \/ strEqual(node.tag, "Action")
       \/ strEqual(node.tag, "Decorator")
       \/ strEqual(node.tag, "SubTree")
       \/ strEqual(node.tag, "Condition")
    THEN ParameterLoop(
            ErrorIf(acc, Attribute(node, "ID") = Null, node.line,
                    "Error at line %d: -> The attribute [ID] is mandatory"),
            node, Len(ChildrenNamed(xml_root, "Parameter")))
    ELSE acc

RECURSIVE MetaLoop(_, _, _)
MetaLoop(acc, xml_root, i) ==
    IF i > Len(xml_root.children) THEN acc
    ELSE MetaLoop(MetaNode(acc, xml_root, xml_root.children[i]), xml_root, i + 1)

\* the TreeNodesModel section of verifyXML
MetaSection(acc, xml_root) ==
    LET metas == ChildrenNamed(xml_root, "TreeNodesModel")
        acc1  == ErrorIf(acc, Len(metas) >= 2,
                         IF Len(metas) >= 2 THEN metas[2].line ELSE 0,
                         " Only a single node <TreeNodesModel> is supported")
    IN  IF Len(metas) >= 1 THEN MetaLoop(acc1, xml_root, 1) ELSE acc1

\* the rule of one element, by its name (the if / else-if chain of recursiveStep)
NodeRule(acc, node) ==
    LET children_count == ChildrenCount(node)
        name == node.tag
        noID == Attribute(node, "ID") = Null
    IN  IF strEqual(name, "Decorator") THEN
            ErrorIf(ErrorIf(acc, children_count # 1, node.line,
                            "The node <Decorator> must have exactly 1 child"),
                    noID, node.line, "The node <Decorator> must have the attribute [ID]")
        ELSE IF strEqual(name, "Action") THEN
            ErrorIf(ErrorIf(acc, children_count # 0, node.line,
                            "The node <Action> must not have any child"),
                    noID, node.line, "The node <Action> must have the attribute [ID]")
        ELSE IF strEqual(name, "Condition") THEN
            ErrorIf(ErrorIf(acc, children_count # 0, node.line,
                            "The node <Condition> must not have any child"),
                    noID, node.line, "The node <Condition> must have the attribute [ID]")
        ELSE IF \/ strEqual(name, "Sequence") \/ strEqual(name, "SequenceStar")
                \/ strEqual(name, "Fallback") \/ strEqual(name, "FallbackStar") THEN
            ErrorIf(acc, children_count = 0, node.line,
                    "A Control node must have at least 1 child")
        ELSE IF strEqual(name, "SubTree") THEN
            ErrorIf(ErrorIf(acc, children_count > 0, node.line,
                            "The <SubTree> node must have no children"),
                    noID, node.line, "The node <SubTree> must have the attribute [ID]")
        ELSE AppendError(acc, node.line, "Node not recognized")

\* the children the recursion of recursiveStep visits, mutated: only the first
RecursionChildren_first(node) ==
    IF Len(node.children) = 0 THEN <<>> ELSE <<node.children[1]>>

\* the children the recursion of recursiveStep visits: all of them, in order
RecursionChildren(node) == node.children

\* recursiveStep: the rule of the node, then the recursion over its children
RECURSIVE recursiveStep(_, _)
RECURSIVE recursiveChildren(_, _, _)
recursiveStep(acc, node) == recursiveChildren(NodeRule(acc, node), RecursionChildren(node), 1)

recursiveChildren(acc, children, i) ==
    IF i > Len(children) THEN acc
    ELSE recursiveChildren(recursiveStep(acc, children[i]), children, i + 1)

\* the body of the loop over the BehaviorTree children of the root
BehaviorTreeStep(acc, bt_root) ==
    IF ChildrenCount(bt_root) # 1
    THEN AppendError(acc, bt_root.line, "The node <BehaviorTree> must have exactly 1 child")
    ELSE recursiveStep(acc, FirstChildElement(bt_root))

RECURSIVE BehaviorTreeLoop(_, _, _)
BehaviorTreeLoop(acc, bt_roots, i) ==
    IF i > Len(bt_roots) THEN acc
    ELSE BehaviorTreeLoop(BehaviorTreeStep(acc, bt_roots[i]), bt_roots, i + 1)

\* bool XMLParser::verifyXML(std::vector<std::string>& error_messages) const
\* the result is the returned boolean and the list left in error_messages
verifyXML(d, error_messages) ==
    LET start == clear(error_messages)
    IN  IF d.error THEN
            [ret |-> FALSE, msgs |-> Append(start, "The XML was not correctly loaded")]
        ELSE IF d.root = NullElem \/ ~strEqual(d.root.tag, "root") THEN
            [ret |-> FALSE, msgs |-> Append(start, "The XML must have a root node called <root>")]
        ELSE
            LET acc0 == [msgs |-> start, is_valid |-> TRUE]
                acc1 == MetaSection(acc0, d.root)
                acc2 == BehaviorTreeLoop(acc1, ChildrenNamed(d.root, "BehaviorTree"), 1)
            IN  [ret |-> acc2.is_valid, msgs |-> acc2.msgs]

(***************************************************************************)
(* The documents given to loadFromText.  The parser (tinyxml2) is          *)
(* represented by its result: the element tree, each element with the      *)
(* line it was read from.                                                  *)
(***************************************************************************)
\* an element as written, before the parser has placed it: line is what
\* GetLineNum returns, pos the element's place in document order (its identity)
MkElem(tag, attrs, children) ==
    [tag |-> tag, attrs |-> attrs, line |-> 0, pos |-> 0, children |-> children]

\* how a text is laid out: "lines" puts every opening tag and every closing
\* tag of an element with children on a line of its own (an element without
\* children is written <x/>), "flat" puts the whole text on one line
Layouts == {"lines", "flat"}

\* the parser reads the text in document order: the element gets the line
\* and the position the reading has reached; the result is the placed
\* element and the line and position reached after it
RECURSIVE Place(_, _, _)
RECURSIVE PlaceAll(_, _, _)
Place(e, at, layout) ==
    LET inside == [line |-> IF layout = "flat" THEN at.line ELSE at.line + 1,
                   pos  |-> at.pos + 1]
        kids   == PlaceAll(e.children, inside, layout)
    IN  [elem |-> [e EXCEPT !.line = at.line, !.pos = at.pos, !.children = kids.elems],
         next |-> [line |-> IF layout = "flat" THEN at.line
                            ELSE IF e.children = <<>> THEN at.line + 1
                            ELSE kids.next.line + 1,
                   pos  |-> kids.next.pos]]

PlaceAll(es, at, layout) ==
    IF es = <<>> THEN [elems |-> <<>>, next |-> at]
    ELSE LET first == Place(Head(es), at, layout)
             rest  == PlaceAll(Tail(es), first.next, layout)
         IN  [elems |-> <<first.elem>> \o rest.elems, next |-> rest.next]

\* a successfully parsed text, its root element on line 1
LaidOutDoc(root_elem, layout) ==
    [error |-> FALSE, root |-> Place(root_elem, [line |-> 1, pos |-> 1], layout).elem]

\* a successfully parsed text with one tag per line
ParsedDoc(root_elem) == LaidOutDoc(root_elem, "lines")

\* the non-empty sequences of at most n members of S
RECURSIVE SeqsUpTo(_, _)
SeqsUpTo(S, n) ==
    IF n = 0 THEN {}
    ELSE LET shorter == SeqsUpTo(S, n - 1)
         IN  {<<x>> : x \in S} \cup shorter \cup {Append(q, x) : q \in shorter, x \in S}

IdAttr(id) == [ID |-> id]

\* leaves as they are written in a definition, right and wrong
Leaves ==
    { MkElem("Action", IdAttr("A"), <<>>),
      MkElem("Action", IdAttr("B"), <<>>),
      MkElem("Action", NoAttrs, <<>>),
      MkElem("Condition", IdAttr("A"), <<>>),
      MkElem("Decorator", IdAttr("A"), <<>>),
      MkElem("Sequence", NoAttrs, <<>>),
      MkElem("SubTree", IdAttr("T1"), <<>>),
      MkElem("SubTree", IdAttr("T2"), <<>>),
      MkElem("SubTree", NoAttrs, <<>>),
      MkElem("SayHello", [name |-> "action_hello"], <<>>) }

\* the leaves written under the elements of depth two
ChildLeaves ==
    { MkElem("Action", IdAttr("A"), <<>>),
      MkElem("Action", IdAttr("B"), <<>>),
      MkElem("Action", NoAttrs, <<>>),
      MkElem("SubTree", IdAttr("T1"), <<>>),
      MkElem("SubTree", IdAttr("T2"), <<>>),
      MkElem("SayHello", [name |-> "action_hello"], <<>>) }

\* the elements that are given children
InnerKinds ==
    { [tag |-> "Sequence", attrs |-> [name |-> "root_sequence"]],
      [tag |-> "Decorator", attrs |-> IdAttr("A")],
      [tag |-> "Action", attrs |-> IdAttr("A")],
      [tag |-> "SubTree", attrs |-> IdAttr("T2")] }

\* elements of depth two: an inner element over one to MaxChildren leaves
Depth2 == { MkElem(k.tag, k.attrs, ch) : k \in InnerKinds, ch \in SeqsUpTo(ChildLeaves, MaxChildren) }

\* elements of depth three: a control node or a decorator over one element of depth two
Depth3 ==
    { MkElem(t, IF t = "Decorator" THEN IdAttr("A") ELSE NoAttrs, <<e>>) :
        t \in {"Fallback", "Decorator"},
        e \in { d \in Depth2 : Len(d.children) = 1 \/ d.tag = "Sequence" } }

\* every control name, with and without a child; a decorator without ID
OtherKinds ==
    { MkElem(t, NoAttrs, ch) :
        t \in {"SequenceStar", "Fallback", "FallbackStar", "Decorator", "Condition"},
        ch \in {<<>>, <<MkElem("Action", IdAttr("A"), <<>>)>>} }

BehaviorTree(id, children) ==
    MkElem("BehaviorTree", IF id = Null THEN NoAttrs ELSE IdAttr(id), children)

Root(tag, main, children) ==
    MkElem(tag, IF main = Null THEN NoAttrs ELSE [main_tree_to_execute |-> main], children)

\* the well-formed elements among the leaves and the elements of depth two
\* (what they name may still be missing or unregistered)
WellFormed ==
    { e \in Leaves \cup Depth2 :
        /\ e.tag \in {"Sequence", "Decorator", "SubTree", "Action"}
        /\ Attribute(e, "ID") # Null \/ e.tag = "Sequence"
        /\ Len(e.children) = (IF e.tag = "Decorator" THEN 1 ELSE Len(e.children))
        /\ Len(e.children) > 0 \/ e.tag \in {"SubTree", "Action"}
        /\ Len(e.children) = 0 \/ e.tag \in {"Sequence", "Decorator"}
        /\ \A i \in DOMAIN e.children :
              /\ e.children[i].tag \in {"Action", "SubTree"}
              /\ Attribute(e.children[i], "ID") # Null }

\* one BehaviorTree T1 with one child; main_tree_to_execute names it, names a
\* tree that is not there, or is absent
SingleTreeDocs ==
    { ParsedDoc(Root("root", "T1", <<BehaviorTree("T1", <<e>>)>>)) :
        e \in Leaves \cup Depth2 \cup Depth3 \cup OtherKinds }
    \cup
    { ParsedDoc(Root("root", m, <<BehaviorTree("T1", <<e>>)>>)) :
        m \in {Null, "T3"}, e \in WellFormed }

\* the child of the second tree of a document with two trees
SecondTrees ==
    { MkElem("Action", IdAttr("A"), <<>>),
      MkElem("Action", IdAttr("B"), <<>>),
      MkElem("SubTree", IdAttr("T1"), <<>>),
      MkElem("SubTree", IdAttr("T2"), <<>>),
      MkElem("SubTree", IdAttr("T3"), <<>>),
      MkElem("Sequence", NoAttrs, <<MkElem("Action", IdAttr("A"), <<>>),
                                    MkElem("SubTree", [ID |-> "T1", name |-> "again"], <<>>)>>) }

\* a SubTree whose name and ID are two different BehaviorTree IDs
NamedSubTree == MkElem("SubTree", [ID |-> "T1", name |-> "T2"], <<>>)

\* two BehaviorTree definitions; the second one is T2, T1 again, or has no ID
TwoTreeDocs ==
    { ParsedDoc(Root("root", m, <<BehaviorTree("T1", <<e1>>), BehaviorTree(id2, <<e2>>)>>)) :
        m \in {"T1", "T2", "T3"}, id2 \in {"T2"},
        e1 \in WellFormed \cup {NamedSubTree}, e2 \in SecondTrees }
    \cup
    { ParsedDoc(Root("root", "T1", <<BehaviorTree("T1", <<e1>>), BehaviorTree(id2, <<e2>>)>>)) :
        id2 \in {"T1", Null},
        e1 \in {MkElem("SubTree", IdAttr("T1"), <<>>), MkElem("Action", IdAttr("A"), <<>>)},
        e2 \in SecondTrees }

\* a BehaviorTree without child or with several, alone or next to a second tree
BadTreeDocs ==
    { ParsedDoc(Root("root", "T1", <<BehaviorTree("T1", ch)>> \o more)) :
        ch \in {<<>>} \cup { q \in SeqsUpTo(ChildLeaves, MaxChildren) : Len(q) > 1 },
        more \in { <<>>,
                   <<BehaviorTree("T2", <<MkElem("Action", NoAttrs, <<>>)>>)>>,
                   <<BehaviorTree("T2", <<MkElem("Action", IdAttr("A"), <<>>)>>)>> } }

\* what stands under the root next to the BehaviorTree when a TreeNodesModel is given
ModelEntries ==
    { <<>>,
      <<MkElem("Action", IdAttr("A"), <<>>)>>,
      <<MkElem("Action", NoAttrs, <<>>)>>,
      <<MkElem("Action", [ID |-> "A", label |-> "l", type |-> "t"], <<>>),
        MkElem("Parameter", NoAttrs, <<>>)>>,
      <<MkElem("Condition", [label |-> "l"], <<>>),
        MkElem("Parameter", NoAttrs, <<>>), MkElem("Parameter", NoAttrs, <<>>)>>,
      <<MkElem("Sequence", NoAttrs, <<>>), MkElem("Parameter", NoAttrs, <<>>)>> }

\* documents with zero, one or two TreeNodesModel elements under the root
ModelDocs ==
    { ParsedDoc(Root("root", "T1",
                     models \o entries \o <<BehaviorTree("T1", <<e>>)>>)) :
        models \in { <<MkElem("TreeNodesModel", NoAttrs, <<>>)>>,
                     <<MkElem("TreeNodesModel", NoAttrs, <<>>),
                       MkElem("TreeNodesModel", NoAttrs, <<>>)>> },
        entries \in ModelEntries,
        e \in { MkElem("Action", IdAttr("A"), <<>>), MkElem("Action", NoAttrs, <<>>) } }
    \cup
    { ParsedDoc(Root("root", "T1", entries \o <<BehaviorTree("T1", <<e>>)>>)) :
        entries \in ModelEntries \ {<<>>},
        e \in { MkElem("Action", IdAttr("A"), <<>>) } }

\* documents whose root element is not <root>, or that have no BehaviorTree
RootDocs ==
    { ParsedDoc(Root(t, "T1", <<BehaviorTree("T1", <<e>>)>>)) :
        t \in {"Root", "BehaviorTree"},
        e \in { MkElem("Action", IdAttr("A"), <<>>), MkElem("Action", NoAttrs, <<>>) } }
    \cup { ParsedDoc(Root("root", m, <<>>)) : m \in {Null, "T1"} }

\* texts written on a single line: a Sequence over leaves, and a BehaviorTree
\* with several children
FlatDocs ==
    { LaidOutDoc(Root("root", "T1", <<BehaviorTree("T1", <<MkElem("Sequence", NoAttrs, ch)>>)>>),
                 "flat") : ch \in SeqsUpTo(ChildLeaves, MaxChildren) }
    \cup
    { LaidOutDoc(Root("root", "T1", <<BehaviorTree("T1", ch)>>), "flat") :
        ch \in { q \in SeqsUpTo(ChildLeaves, MaxChildren) : Len(q) > 1 } }

\* an element read at the given line and position
ElemAt(tag, attrs, line, pos, children) ==
    [tag |-> tag, attrs |-> attrs, line |-> line, pos |-> pos, children |-> children]

\* xml_text of examples/t01_build_your_first_tree.cpp: the raw string starts
\* with two empty lines, <root> is on line 3, <BehaviorTree> on line 5,
\* <Sequence> on line 6 and the four leaves on lines 7 to 10
ExampleDoc ==
    [error |-> FALSE,
     root |->
        ElemAt("root", [main_tree_to_execute |-> "MainTree"], 3, 1,
            <<ElemAt("BehaviorTree", IdAttr("MainTree"), 5, 2,
                <<ElemAt("Sequence", [name |-> "root_sequence"], 6, 3,
                    << ElemAt("SayHello", [name |-> "action_hello"], 7, 4, <<>>),
                       ElemAt("OpenGripper", [name |-> "open_gripper"], 8, 5, <<>>),
                       ElemAt("ApproachObject", [name |-> "approach_object"], 9, 6, <<>>),
                       ElemAt("CloseGripper", [name |-> "close_gripper"], 10, 7, <<>>) >>)>>)>>)]

\* the texts given to loadFromText and loadFromFile, as parsed (ErrorDoc: the
\* text does not parse, or the file cannot be read)
Docs ==
    {ErrorDoc, ExampleDoc} \cup SingleTreeDocs \cup TwoTreeDocs \cup BadTreeDocs
        \cup ModelDocs \cup RootDocs \cup FlatDocs

\* the texts given to a parser that was loaded before: one that does not
\* parse, a valid definition and an invalid one
ReloadDocs ==
    { ErrorDoc,
      ParsedDoc(Root("root", "T1", <<BehaviorTree("T1", <<MkElem("Action", IdAttr("A"), <<>>)>>)>>)),
      ParsedDoc(Root("root", "T1", <<BehaviorTree("T1", <<MkElem("Action", NoAttrs, <<>>)>>)>>)) }

(***************************************************************************)
(* The factory and the nodes.                                              *)
(***************************************************************************)
NodeKinds == {"Action", "Condition", "Control", "Decorator", "Subtree"}

\* the node types every factory registers, and those of the example's plugin
BuiltinNodes ==
    [id \in {"Sequence", "SequenceStar", "Fallback", "FallbackStar"} |-> "Control"]
    @@ [id \in {"SubTree"} |-> "Subtree"]
    @@ [id \in {"SayHello", "OpenGripper", "ApproachObject", "CloseGripper"} |-> "Action"]

\* the factories given to instantiateTree: the user's registrations of A and B
\* ("" when the ID is not registered)
Registries ==
    { BuiltinNodes @@ [id \in {"A", "B"} |-> IF id = "A" THEN a ELSE b] :
        a \in {"Action", "Decorator", "Control", ""}, b \in {"Action", ""} }

\* BehaviorTreeFactory::instantiateTreeNode(ID, name, params): the kind of the
\* node made for a registered ID, "" when the factory throws (ID not registered)
instantiateTreeNode(f, ID) == IF ID \in DOMAIN f THEN f[ID] ELSE ""

\* a node just instantiated for the element of the given position
NewNode(kind, ID, name, pos) ==
    [kind |-> kind, ID |-> ID, name |-> name, src |-> pos,
     children |-> <<>>, parents |-> <<>>]

\* the nodes the caller's list holds before the call (left by an earlier build)
PriorHeap(k) == [i \in 1..k |-> NewNode("Action", "A", "prior", 0)]

\* ControlNode::addChild
addChild(h, parent, child) ==
    [h EXCEPT ![parent].children = Append(@, child), ![child].parents = Append(@, parent)]

\* DecoratorNode::setChild
setChild(h, parent, child) ==
    [h EXCEPT ![parent].children = <<child>>, ![child].parents = Append(@, parent)]

\* the attachment of node_builder: by the dynamic type of the parent
attach(h, parent, child) ==
    IF parent = 0 THEN h
    ELSE IF h[parent].kind = "Control" THEN addChild(h, parent, child)
    ELSE IF h[parent].kind \in {"Decorator", "Subtree"} THEN setChild(h, parent, child)
    ELSE h

(***************************************************************************)
(* instantiateTree                                                         *)
(***************************************************************************)
\* the test after verifyXML, mutated: one diagnostic is let through
VerifyFailed_one(msgs) == Len(msgs) > 1

\* the test after verifyXML: error_messages.size() > 0
VerifyFailed(msgs) == Len(msgs) > 0

\* the outcomes of std::string(nullptr) (undefined behaviour: libstdc++ throws
\* std::logic_error, other libraries read through the null pointer)
NullStringOutcomes == {"std::logic_error", "SIGSEGV"}

\* the outcomes of calling FirstChildElement() through a null XMLElement*
NullDerefOutcomes == {"SIGSEGV", "undefined"}

\* the errors instantiateTree reports by throwing
ReportedErrors == {"verify_failed", "factory_error"}

\* the BehaviorTree children of the root, in document order
BehaviorTrees(d) == ChildrenNamed(d.root, "BehaviorTree")

\* the map bt_roots after the loop: a later BehaviorTree replaces an earlier
\* one of the same ID
bt_roots(d) ==
    LET trees == BehaviorTrees(d)
        Last(id) == CHOOSE i \in DOMAIN trees :
                        /\ Attribute(trees[i], "ID") = id
                        /\ \A j \in DOMAIN trees : Attribute(trees[j], "ID") = id => j <= i
    IN  [id \in {Attribute(trees[i], "ID") : i \in DOMAIN trees} |-> trees[Last(id)]]

\* bt_roots[key]: operator[] yields a null pointer for a key that is not there
MapAt(map, key) == IF key \in DOMAIN map THEN map[key] ELSE NullElem

\* the ID treeParsing passes to the builder: the attribute ID of an Action,
\* Condition or Decorator, the element's name otherwise
NodeID(e) ==
    IF e.tag \in {"Action", "Condition", "Decorator"} THEN Attribute(e, "ID") ELSE e.tag

\* the instance name of an element: the attribute name, else the ID
InstanceName(e) ==
    IF Attribute(e, "name") # Null THEN Attribute(e, "name") ELSE NodeID(e)

\* what treeParsing may pass as name for a SubTree element: its instance
\* name, or its attribute ID (the tree the element refers to)
NameRules == {"instance_name", "reference_ID"}

\* the name treeParsing passes to the builder under the given rule; the rule
\* only matters for a SubTree element, whose name the builder looks up in
\* bt_roots
NodeName(e, rule) ==
    IF e.tag = "SubTree" /\ rule = "reference_ID" THEN Attribute(e, "ID")
    ELSE InstanceName(e)

\* the element whose tree a Subtree node is given as child
SubtreeTarget(d, ID, name) == MapAt(bt_roots(d), name)

\* a pending call of treeParsing's recursion: the elements still to build
\* under one parent, and the number of subtree expansions it is nested in
Frame(elems, parent, nest) == [elems |-> elems, parent |-> parent, nest |-> nest]

\* the frames that still have an element to build
RECURSIVE Pending(_)
Pending(st) ==
    IF st = <<>> THEN <<>>
    ELSE IF Head(st).elems = <<>> THEN Pending(Tail(st))
    ELSE <<Head(st)>> \o Pending(Tail(st))

(***************************************************************************)
(* State.                                                                  *)
(***************************************************************************)
VARIABLES
    pc,              \* "new", "loaded", "verified", "building", "done"
    doc,             \* XMLParser::doc_
    error_messages,  \* the list verifyXML fills (the caller's, or instantiateTree's local)
    err_in,          \* what the caller's list held when verifyXML was called
    ret,             \* the boolean verifyXML returned
    factory,         \* the factory given to instantiateTree
    nodes,           \* the caller's flat list: indices into heap
    nodes_in,        \* the flat list as it was when instantiateTree was called
    heap,            \* every node instantiated so far
    stack,           \* the pending calls of treeParsing's recursion, innermost first
    root,            \* the node instantiateTree returned (0: none)
    result,          \* how the last operation ended
    factory_calls,   \* calls of factory.instantiateTreeNode made by instantiateTree
    name_rule        \* the name treeParsing passes for a SubTree element (one of NameRules)

vars == <<pc, doc, error_messages, err_in, ret, factory, nodes, nodes_in, heap, stack,
          root, result, factory_calls, name_rule>>

\* what the caller's error list may hold before verifyXML is called: nothing,
\* a diagnostic of some other document, or (see VerifyXML) what the last call left
CallerMessages == { <<>>, <<"Error at line 999: -> Node not recognized">> }

\* XMLParser's constructor: an empty document
Init ==
    /\ pc = "new"
    /\ doc = EmptyDoc
    /\ error_messages = <<>>
    /\ err_in = <<>>
    /\ ret = FALSE
    /\ factory = BuiltinNodes
    /\ nodes = <<>>
    /\ nodes_in = <<>>
    /\ heap = <<>>
    /\ stack = <<>>
    /\ root = 0
    /\ result = "none"
    /\ factory_calls = 0
    /\ name_rule = "instance_name"

\* the texts a parser is given when it is first loaded (any of Docs) and when
\* it already holds a document or a failed load (one of ReloadDocs)
TextsFor(at) == IF at = "new" THEN Docs ELSE ReloadDocs

\* void XMLParser::loadFromText(const std::string& xml_text): doc_.Parse
\* replaces whatever document the parser holds; a text that does not parse
\* leaves doc_ in error and the function throws.  Only doc_ changes: the
\* caller's lists and what earlier calls returned stay as they are
LoadFromText ==
    /\ pc \in {"new", "loaded", "verified", "done"}
    /\ \E d \in TextsFor(pc) :
        /\ doc' = d
        /\ result' = IF d.error THEN "load_error" ELSE "none"
    /\ pc' = "loaded"
    /\ UNCHANGED <<error_messages, err_in, ret, factory, nodes, nodes_in, heap, stack,
                   root, factory_calls, name_rule>>

\* void XMLParser::loadFromFile(const std::string& filename): doc_.LoadFile
\* replaces whatever document the parser holds by the file's; a missing file
\* or a text that does not parse leaves doc_ in error and the function throws.
\* Only doc_ changes
LoadFromFile ==
    /\ pc \in {"new", "loaded", "verified", "done"}
    /\ \E d \in TextsFor(pc) :
        /\ doc' = d
        /\ result' = IF d.error THEN "load_error" ELSE "none"
    /\ pc' = "loaded"
    /\ UNCHANGED <<error_messages, err_in, ret, factory, nodes, nodes_in, heap, stack,
                   root, factory_calls, name_rule>>

\* bool XMLParser::verifyXML(std::vector<std::string>& error_messages) const
VerifyXML ==
    /\ pc \in {"new", "loaded", "verified", "done"}
    /\ \E before \in CallerMessages \cup {error_messages} :
        LET v == verifyXML(doc, before)
        IN  /\ err_in' = before
            /\ error_messages' = v.msgs
            /\ ret' = v.ret
    /\ pc' = "verified"
    /\ result' = "none"
    /\ UNCHANGED <<doc, factory, nodes, nodes_in, heap, stack, root, factory_calls, name_rule>>

\* XMLParser::instantiateTree up to the first call of treeParsing: verifyXML,
\* main_tree_ID, bt_roots, bt_roots[main_tree_ID]->FirstChildElement()
InstantiateTree ==
    /\ pc \in {"new", "loaded", "verified", "done"}
    /\ LET v == verifyXML(doc, <<>>)
           main_tree_ID == Attribute(doc.root, "main_tree_to_execute")
           noID == \E i \in DOMAIN BehaviorTrees(doc) :
                       Attribute(BehaviorTrees(doc)[i], "ID") = Null
           main == MapAt(bt_roots(doc), main_tree_ID)
           outcomes == IF VerifyFailed(v.msgs) THEN {"verify_failed"}
                       ELSE IF doc.error \/ doc.root = NullElem THEN NullDerefOutcomes
                       ELSE IF main_tree_ID = Null \/ noID THEN NullStringOutcomes
                       ELSE IF main = NullElem THEN NullDerefOutcomes
                       ELSE {"none"}
       IN  /\ error_messages' = v.msgs
           /\ ret' = v.ret
           /\ result' \in outcomes
           /\ pc' = IF outcomes = {"none"} THEN "building" ELSE "done"
           /\ stack' = IF outcomes = {"none"}
                       THEN <<Frame(<<FirstChildElement(main)>>, 0, 0)>>
                       ELSE <<>>
           \* treeParsing runs only when the build starts
           /\ name_rule' \in (IF outcomes = {"none"} THEN NameRules ELSE {"instance_name"})
    /\ \E f \in Registries, k \in 0..MaxPrior :
        /\ factory' = f
        /\ heap' = PriorHeap(k)
        /\ nodes' = [i \in 1..k |-> i]
        /\ nodes_in' = [i \in 1..k |-> i]
    /\ err_in' = <<>>
    /\ root' = 0
    /\ factory_calls' = 0
    /\ UNCHANGED doc

\* one call of node_builder by treeParsing: instantiate the node of the next
\* element, push it on the flat list, attach it to its parent; a Subtree node
\* has the first child of bt_roots[name] built under it before its own children.
\* A chain of nested expansions longer than the number of BehaviorTree IDs
\* repeats an ID, so it never ends: the recursion runs out of stack.
BuildStep ==
    /\ pc = "building"
    /\ \E o \in NullDerefOutcomes :
        LET top    == Head(stack)
            e      == Head(top.elems)
            name   == NodeName(e, name_rule)
            rest   == Frame(Tail(top.elems), top.parent, top.nest)
            ID     == NodeID(e)
            kind   == instantiateTreeNode(factory, ID)
            n      == Len(heap) + 1
            h1     == attach(Append(heap, NewNode(kind, ID, name, e.pos)), top.parent, n)
            target == SubtreeTarget(doc, ID, name)
            expand == IF kind = "Subtree"
                      THEN <<Frame(<<FirstChildElement(target)>>, n, top.nest + 1)>>
                      ELSE <<>>
            newst  == Pending(expand \o <<Frame(e.children, n, top.nest)>>
                                \o <<rest>> \o Tail(stack))
            outcome == IF kind = "" THEN "factory_error"
                       ELSE IF kind = "Subtree" /\ target = NullElem THEN o
                       ELSE IF kind = "Subtree"
                               /\ top.nest + 2 > Cardinality(DOMAIN bt_roots(doc))
                            THEN "stack_overflow"
                       ELSE IF newst = <<>> THEN "ok"
                       ELSE "none"
        IN  /\ heap' = IF kind = "" THEN heap ELSE h1
            /\ nodes' = IF kind = "" THEN nodes ELSE Append(nodes, n)
            /\ result' = outcome
            /\ pc' = IF outcome = "none" THEN "building" ELSE "done"
            /\ stack' = IF outcome = "none" THEN newst ELSE <<>>
            /\ root' = IF outcome = "ok" THEN Len(nodes_in) + 1 ELSE 0
    /\ factory_calls' = factory_calls + 1
    /\ UNCHANGED <<doc, error_messages, err_in, ret, factory, nodes_in, name_rule>>

Next == LoadFromText \/ LoadFromFile \/ VerifyXML \/ InstantiateTree \/ BuildStep

Spec == Init /\ [][Next]_vars

(***************************************************************************)
(* Properties.                                                             *)
(***************************************************************************)
Range(q) == { q[i] : i \in DOMAIN q }

\* the element and everything below it
RECURSIVE Elements(_)
Elements(e) == {e} \cup UNION { Elements(e.children[i]) : i \in DOMAIN e.children }

\* the nodes instantiated by the current call of instantiateTree
NewNodes == (Len(nodes_in) + 1)..Len(heap)

\* the document was loaded and its root element is <root>
WellRooted == ~doc.error /\ doc.root # NullElem /\ doc.root.tag = "root"

\* the texts of the diagnostics recursiveStep gives for an element
RuleTexts ==
    { "The node <Decorator> must have exactly 1 child",
      "The node <Decorator> must have the attribute [ID]",
      "The node <Action> must not have any child",
      "The node <Action> must have the attribute [ID]",
      "The node <Condition> must not have any child",
      "The node <Condition> must have the attribute [ID]",
      "A Control node must have at least 1 child",
      "The <SubTree> node must have no children",
      "The node <SubTree> must have the attribute [ID]",
      "Node not recognized" }

\* the element breaks the rule of its kind (section 4.6 of the specification)
Violates(e) ==
    CASE e.tag = "Decorator" -> Len(e.children) # 1 \/ "ID" \notin DOMAIN e.attrs
      [] e.tag \in {"Action", "Condition", "SubTree"} ->
            Len(e.children) # 0 \/ "ID" \notin DOMAIN e.attrs
      [] e.tag \in {"Sequence", "SequenceStar", "Fallback", "FallbackStar"} ->
            Len(e.children) = 0
      [] OTHER -> TRUE

\* the diagnostics of the list that recursiveStep gives for the given line
DiagnosticsAt(line) ==
    { i \in DOMAIN error_messages :
        \E t \in RuleTexts :
            error_messages[i] = "Error at line " \o ToString(line) \o ": -> " \o t }

\* every element of S that breaks its rule has a diagnostic of its own: its
\* line has at least as many diagnostics as it has rule-breaking elements of S
EachReported(S) ==
    \A e \in S :
        Violates(e) =>
            Cardinality(DiagnosticsAt(e.line))
                >= Cardinality({ x \in S : Violates(x) /\ x.line = e.line })

\* the elements under the BehaviorTree definitions of the document; those
\* under the definitions that have exactly one child
UnderTrees ==
    UNION { Elements(c) :
            c \in UNION { Range(BehaviorTrees(doc)[i].children) : i \in DOMAIN BehaviorTrees(doc) } }

UnderOneChildTrees ==
    UNION { Elements(BehaviorTrees(doc)[i].children[1]) :
            i \in { j \in DOMAIN BehaviorTrees(doc) : Len(BehaviorTrees(doc)[j].children) = 1 } }

\* C1: when verifyXML leaves a diagnostic, instantiateTree ends with the
\* error "verifyXML failed" before anything is built: no call of the factory,
\* the caller's flat list as it was, no node instantiated, no root returned.
C1_InvalidDefinitionBuildsNothing ==
    (pc \in {"building", "done"} /\ error_messages # <<>>) =>
        /\ pc = "done"
        /\ result = "verify_failed"
        /\ factory_calls = 0
        /\ nodes = nodes_in
        /\ NewNodes = {}
        /\ root = 0

\* C1 happens: a definition with diagnostics was refused while the caller's
\* list already held a node
C1_Witness ==
    /\ pc = "done" /\ result = "verify_failed"
    /\ WellRooted /\ Len(error_messages) >= 2
    /\ nodes_in # <<>>

\* the diagnostic of another document that the caller's list may hold
ForeignMessages == UNION { Range(q) : q \in CallerMessages }

\* C2: verifyXML returns true exactly when the list it leaves is empty, on
\* every return path, and nothing the list held before the call is in it:
\* the list is what the document gives in an empty list.
C2_ValidIffNoDiagnostics ==
    (pc \in {"verified", "building", "done"}) =>
        /\ ret <=> (error_messages = <<>>)
        /\ error_messages = verifyXML(doc, <<>>).msgs
        /\ \A m \in ForeignMessages : m \notin Range(error_messages)

\* C2 happens: a valid document was verified into a list that held an old diagnostic
C2_Witness ==
    /\ pc = "verified" /\ ret /\ err_in # <<>> /\ WellRooted
    /\ Len(BehaviorTrees(doc)) = 2

\* C3 as stated: every element under any BehaviorTree of the document that
\* breaks the rule of its kind has a diagnostic, whatever else is wrong.
C3_EveryViolationReported ==
    (pc = "verified" /\ WellRooted) => EachReported(UnderTrees)

\* C3 amended: every element under a BehaviorTree that has exactly one child
\* and that breaks the rule of its kind has a diagnostic, whatever else is
\* wrong in the document (under a BehaviorTree with no child or several, only
\* the BehaviorTree itself is reported).
C3_ViolationsUnderOneChildTreesReported ==
    (pc = "verified" /\ WellRooted) => EachReported(UnderOneChildTrees)

\* C3 happens: the second child of an inner element breaks its rule while
\* its first sibling, on another line, also does
C3_Witness ==
    /\ pc = "verified" /\ WellRooted
    /\ \E i \in DOMAIN BehaviorTrees(doc) :
        /\ Len(BehaviorTrees(doc)[i].children) = 1
        /\ LET c == BehaviorTrees(doc)[i].children[1]
           IN  /\ Len(c.children) >= 2
               /\ Violates(c.children[1])
               /\ Violates(c.children[2])
               /\ c.children[1].line # c.children[2].line
               /\ DiagnosticsAt(c.children[2].line) # {}

\* C4: the build of a verified definition never expands subtrees without
\* bound; a SubTree that leads back to its own BehaviorTree ends the build
\* with a build error.
C4_CyclesEndInBuildError ==
    (pc = "done" /\ ret) => result # "stack_overflow"

\* C5: when main_tree_to_execute names an ID no BehaviorTree carries, the
\* build ends in a reported error and nothing has been instantiated.
C5_MissingMainTreeIsBuildError ==
    ( /\ pc = "done" /\ ret
      /\ Attribute(doc.root, "main_tree_to_execute") # Null
      /\ \A i \in DOMAIN BehaviorTrees(doc) : Attribute(BehaviorTrees(doc)[i], "ID") # Null
      /\ Attribute(doc.root, "main_tree_to_execute") \notin DOMAIN bt_roots(doc) )
    => /\ result \in ReportedErrors
       /\ nodes = nodes_in
       /\ NewNodes = {}

\* C6: when the build fails after nodes were instantiated (unknown node ID,
\* SubTree naming a BehaviorTree that is not there), no root is returned and
\* the flat list holds none of the nodes of that build.
C6_FailedBuildLeavesNoNodes ==
    ( /\ pc = "done"
      /\ NewNodes # {}
      /\ result \notin {"ok", "stack_overflow"} )
    => /\ root = 0
       /\ \A i \in DOMAIN nodes : nodes[i] \notin NewNodes

\* C7: a valid document with exactly one BehaviorTree and no
\* main_tree_to_execute has that tree selected and built.
C7_SoleTreeIsSelected ==
    ( /\ pc = "done" /\ ret
      /\ Len(BehaviorTrees(doc)) = 1
      /\ Attribute(doc.root, "main_tree_to_execute") = Null )
    => /\ factory_calls >= 1
       /\ result = "ok" =>
            heap[root].src = FirstChildElement(BehaviorTrees(doc)[1]).pos

\* C9: after a successful build every Decorator (and Subtree) node has
\* exactly one child, every Control node at least one, every Action and
\* Condition node none, every node but the root was attached to exactly one
\* parent, and every node is in the flat list.
C9_BuiltGraphWellFormed ==
    (pc = "done" /\ result = "ok") =>
        \A n \in NewNodes :
            /\ heap[n].kind \in {"Decorator", "Subtree"} => Len(heap[n].children) = 1
            /\ heap[n].kind = "Control" => Len(heap[n].children) >= 1
            /\ heap[n].kind \in {"Action", "Condition"} => Len(heap[n].children) = 0
            /\ n # root => Len(heap[n].parents) = 1
            /\ n \in Range(nodes)

\* C10: the definition of the first example, whose leaves are written under
\* the names of their registered types, passes validation and is built.
C10_ExampleIsBuilt ==
    ( /\ pc = "done" /\ doc = ExampleDoc
      /\ \A id \in {"Sequence", "SayHello", "OpenGripper", "ApproachObject", "CloseGripper"} :
            instantiateTreeNode(factory, id) # "" )
    => /\ result = "ok"
       /\ root # 0

====
